---- MODULE Spec2Model ----
(***************************************************************************)
(* Model of src/main.py: the on-disk embedding cache                        *)
(* (load_or_compute_embeddings), the similarity ranking                     *)
(* (find_similar_modules) and the driver (main).                            *)
(*                                                                          *)
(* Conventions.                                                             *)
(*  - Python strings are TLA+ strings; formatting and json.dumps are        *)
(*    modelled by the text they build.                                      *)
(*  - hashlib.md5 is modelled as collision free (a tagged copy of its       *)
(*    input).                                                               *)
(*  - The embedding provider (SentenceTransformer.encode) is an opaque      *)
(*    deterministic function of the model name and the text, into integer   *)
(*    vectors of dimension 2; the vector of a text does not depend on the   *)
(*    batch it is encoded in.                                               *)
(*  - The corpora are non-empty (load_or_compute_embeddings is specified    *)
(*    for a non-empty corpus).                                              *)
(*  - A run may be stopped while it writes the cache; a file cut short is   *)
(*    unreadable.                                                           *)
(*  - Arithmetic on similarities is exact (no floating-point rounding): a   *)
(*    cosine c is represented by the fraction num/den = sgn(c) * c^2, which *)
(*    orders as c does.                                                     *)
(*  - Positions are 0-based as in the source; a TLA+ sequence is read at    *)
(*    position + 1.                                                         *)
(***************************************************************************)
EXTENDS Integers, Sequences, FiniteSets, TLC

VARIABLES
    cache_dir,        \* whether the directory 'cache' exists
    cache_file,       \* cache/embeddings.npz
    metadata_file,    \* cache/metadata.json
    now,              \* the wall clock read by datetime.now()
    pc,               \* position of the running process ("idle": none runs)
    modules,          \* main: modules
    model_name,       \* main: MODEL_NAME
    force_recompute,  \* main: args.force_recompute
    i,                \* load_or_compute_embeddings: loop variable i
    embeddings,       \* load_or_compute_embeddings: embeddings / main: embeddings
    number,           \* main: number (find_similar_modules: module_idx)
    threshold,        \* find_similar_modules: threshold
    results,          \* find_similar_modules: the returned list
    hist              \* history of the current / last call (not program state)

vars == <<cache_dir, cache_file, metadata_file, now, pc, modules, model_name,
          force_recompute, i, embeddings, number, threshold, results, hist>>

----------------------------------------------------------------------------
(* Program constants *)

batch_size == 32

DefaultNumber == 42

TopK == 5

TitlePrefix == "Parallel Programming"

DefaultThreshold == [num |-> 3, den |-> 5]

ModelNames == {"sentence-transformers/all-MiniLM-L6-v2",
               "sentence-transformers/all-mpnet-base-v2"}

(* Bounds of the model *)

MaxRuns == 3

MaxN == 4

----------------------------------------------------------------------------
(* Small helpers *)

Min(a, b) == IF a < b THEN a ELSE b

Abs(a) == IF a < 0 THEN -a ELSE a

startswith(s, prefix) ==
    /\ Len(s) >= Len(prefix)
    /\ SubSeq(s, 1, Len(prefix)) = prefix

----------------------------------------------------------------------------
(* The input corpora *)

Fields == {"module_id", "title", "content", "learning_outcomes"}

Filler == "abcdefghijklmnopqrstuvwxyz"

BaseModule(k) ==
    [module_id         |-> "IN" \o ToString(k),
     title             |-> "Course " \o ToString(k),
     content           |-> SubSeq(Filler, 1, 1 + (k % 7)),
     learning_outcomes |-> SubSeq(Filler, 1, 1 + (k % 3))]

Base(n) == [k \in 1..n |-> BaseModule(k)]

Changed(corpus, k, field, value) ==
    [corpus EXCEPT ![k] = [corpus[k] EXCEPT ![field] = value]]

Small == Base(2)

Large == Base(44)

Corpora ==
    { Small,
      Base(32),
      Base(65),
      Large,
      Changed(Large, 1, "module_id", "IN99"),
      Changed(Large, 33, "content", "abcdefghi"),
      Changed(Large, 44, "learning_outcomes", "abcde"),
      Changed(Large, 40, "title", "Parallel Programming II") }

SingleFieldChange(a, b) ==
    /\ Len(a) = Len(b)
    /\ Cardinality({<<k, f>> \in (1..Len(a)) \X Fields : a[k][f] # b[k][f]}) = 1

----------------------------------------------------------------------------
(* get_data_hash *)

dumps_module(m) ==
    "{\"content\": \"" \o m.content
        \o "\", \"learning_outcomes\": \"" \o m.learning_outcomes
        \o "\", \"module_id\": \"" \o m.module_id
        \o "\", \"title\": \"" \o m.title \o "\"}"

RECURSIVE dumps_items(_)
dumps_items(ms) ==
    IF Len(ms) = 0 THEN ""
    ELSE IF Len(ms) = 1 THEN dumps_module(ms[1])
    ELSE dumps_module(ms[1]) \o ", " \o dumps_items(Tail(ms))

json_dumps(ms) == "[" \o dumps_items(ms) \o "]"

md5_hexdigest(s) == "md5:" \o s

(* Variant: the hash covers the embedded fields only *)
get_data_hash_of_texts(ms) ==
    md5_hexdigest(json_dumps(
        [k \in 1..Len(ms) |-> [ms[k] EXCEPT !.module_id = ""]]))

get_data_hash(ms) == md5_hexdigest(json_dumps(ms))

(* get_data_hash of each input corpus, computed once *)
DataHash == [c \in Corpora |-> get_data_hash(c)]

----------------------------------------------------------------------------
(* create_module_text and the embedding provider *)

create_module_text(module) ==
    module.title \o " " \o module.content \o " " \o module.learning_outcomes

Texts(ms) == [k \in 1..Len(ms) |-> create_module_text(ms[k])]

encode_one(mn, text) ==
    LET n == Len(text) IN
    IF mn = "sentence-transformers/all-mpnet-base-v2"
    THEN <<(n % 4) - 1, ((n \div 4) % 3) - 1>>
    ELSE <<((n \div 2) % 3) - 1, (n % 5) - 2>>

encode(mn, batch_texts) ==
    [k \in 1..Len(batch_texts) |-> encode_one(mn, batch_texts[k])]

(* Variant: only full batches are taken *)
BatchDropsTail(texts, lo) ==
    IF lo + batch_size <= Len(texts)
    THEN SubSeq(texts, lo + 1, lo + batch_size)
    ELSE <<>>

Batch(texts, lo) == SubSeq(texts, lo + 1, Min(lo + batch_size, Len(texts)))

----------------------------------------------------------------------------
(* The persisted files *)

NoFile == [state |-> "absent", embeddings |-> <<>>]

BrokenFile == [state |-> "corrupt", embeddings |-> <<>>]

NpzFile(embs) == [state |-> "ok", embeddings |-> embs]

NoMetadata ==
    [state |-> "absent", data_hash |-> "", model_name |-> "",
     timestamp |-> 0, num_modules |-> 0]

BrokenMetadata ==
    [state |-> "corrupt", data_hash |-> "", model_name |-> "",
     timestamp |-> 0, num_modules |-> 0]

Metadata(ms, mn, t) ==
    [state |-> "ok", data_hash |-> DataHash[ms], model_name |-> mn,
     timestamp |-> t, num_modules |-> Len(ms)]

exists(file) == file.state # "absent"

(* Variants: the flag is not consulted; the flag is read the wrong way round *)
UseCacheIgnoresForce(force, cf, mf) == exists(cf) /\ exists(mf)

UseCacheInverted(force, cf, mf) == force /\ exists(cf) /\ exists(mf)

UseCache(force, cf, mf) == ~force /\ exists(cf) /\ exists(mf)

MetadataMatches(metadata, ms, mn) ==
    /\ metadata.data_hash = DataHash[ms]
    /\ metadata.model_name = mn

----------------------------------------------------------------------------
(* find_similar_modules *)

RECURSIVE gcd(_, _)
gcd(a, b) == IF b = 0 THEN a ELSE gcd(b, a % b)

Fraction(n, d) ==
    LET g == gcd(Abs(n), d) IN [num |-> n \div g, den |-> d \div g]

dot(a, b) == a[1] * b[1] + a[2] * b[2]

cosine_similarity(a, b) ==
    LET d  == dot(a, b)
        nn == dot(a, a) * dot(b, b)
    IN  IF nn = 0 THEN Fraction(0, 1)
        ELSE Fraction((IF d < 0 THEN -1 ELSE 1) * d * d, nn)

SignedSquare(t) ==
    Fraction((IF t.num < 0 THEN -1 ELSE 1) * t.num * t.num, t.den * t.den)

Less(x, y) == x.num * y.den < y.num * x.den

AtLeast(sim, thr) == ~Less(sim, SignedSquare(thr))

(* Variant: the threshold alone decides *)
MaskKeepsSelf(similarities, module_idx, thr) ==
    [k \in 1..Len(similarities) |-> AtLeast(similarities[k], thr)]

Mask(similarities, module_idx, thr) ==
    [k \in 1..Len(similarities) |->
        AtLeast(similarities[k], thr) /\ (k - 1) # module_idx]

RECURSIVE where(_, _)
where(mask, n) ==
    IF n = 0 THEN <<>>
    ELSE IF mask[n] THEN Append(where(mask, n - 1), n - 1)
    ELSE where(mask, n - 1)

(* Variant: an entry goes before the entries equal to it (a sort ascending,  *)
(* then reversed)                                                           *)
InsertBeforeEqual(sorted, x) ==
    LET p == Cardinality({k \in 1..Len(sorted) :
                            Less(x.similarity, sorted[k].similarity)})
    IN  SubSeq(sorted, 1, p) \o <<x>> \o SubSeq(sorted, p + 1, Len(sorted))

(* sorted(.., reverse=True) is stable: an entry goes after the entries at    *)
(* least as similar that precede it in the input                            *)
Insert(sorted, x) ==
    LET p == Cardinality({k \in 1..Len(sorted) :
                            ~Less(sorted[k].similarity, x.similarity)})
    IN  SubSeq(sorted, 1, p) \o <<x>> \o SubSeq(sorted, p + 1, Len(sorted))

RECURSIVE sorted_reverse(_)
sorted_reverse(rs) ==
    IF Len(rs) = 0 THEN <<>>
    ELSE Insert(sorted_reverse(SubSeq(rs, 1, Len(rs) - 1)), rs[Len(rs)])

find_similar_modules(module_idx, embs, ms, thr) ==
    IF module_idx >= Len(embs)
    THEN [error |-> "IndexError", value |-> <<>>]
    ELSE
      LET similarities ==
              [k \in 1..Len(embs) |->
                  cosine_similarity(embs[module_idx + 1], embs[k])]
          mask == Mask(similarities, module_idx, thr)
          similar_indices == where(mask, Len(mask))
      IN  IF \E k \in 1..Len(similar_indices) : similar_indices[k] >= Len(ms)
          THEN [error |-> "IndexError", value |-> <<>>]
          ELSE [error |-> "",
                value |-> sorted_reverse(
                    [k \in 1..Len(similar_indices) |->
                        [module_id  |-> ms[similar_indices[k] + 1].module_id,
                         title      |-> ms[similar_indices[k] + 1].title,
                         similarity |-> similarities[similar_indices[k] + 1]]])]

(* main, lines 104-105: the first module whose title has the prefix *)
Matching(ms) == {k \in 0..(Len(ms) - 1) : startswith(ms[k + 1].title, TitlePrefix)}

TargetNumber(ms) ==
    IF Matching(ms) = {} THEN DefaultNumber
    ELSE CHOOSE k \in Matching(ms) : \A j \in Matching(ms) : k <= j

----------------------------------------------------------------------------
(* History of the call in progress (or, when none is, of the last one).     *)
(*   status       none | returned | raised | killed, of                      *)
(*                load_or_compute_embeddings ("running" while it runs)       *)
(*   path         hit | miss, once the cache has been consulted              *)
(*   error        what was raised: cache_read | provider                     *)
(*   rel          how this call's corpus and model relate to those of the    *)
(*                call before it, if that one returned: same | one_field |   *)
(*                model | other; none otherwise                              *)
(*   prev_vectors what the call before it returned (rel = same only)         *)
(*   pre_valid    the call found a readable entry matching its corpus and    *)
(*                model                                                      *)
(*   encodes      calls of model.encode made                                 *)
(*   provider_failed  model.encode raised in this call                       *)
(*   wrote        the files written                                          *)
(*   pre_cache, pre_meta  the two files as the call found them (kept while   *)
(*                the call runs and after it raised)                         *)
(*   main         how main ended: ok | IndexError                            *)

NoHist ==
    [status |-> "none", path |-> "", error |-> "", rel |-> "none",
     prev_vectors |-> <<>>, pre_valid |-> FALSE, encodes |-> 0,
     provider_failed |-> FALSE, wrote |-> {}, pre_cache |-> NoFile,
     pre_meta |-> NoMetadata, main |-> ""]

Relation(ms, mn) ==
    IF hist.status # "returned" THEN "none"
    ELSE IF ms = modules /\ mn = model_name THEN "same"
    ELSE IF mn = model_name /\ SingleFieldChange(modules, ms) THEN "one_field"
    ELSE IF ms = modules THEN "model"
    ELSE "other"

StartHist(ms, mn) ==
    [NoHist EXCEPT
       !.status = "running",
       !.rel = Relation(ms, mn),
       !.prev_vectors = IF Relation(ms, mn) = "same" THEN embeddings ELSE <<>>,
       !.pre_valid = /\ cache_file.state = "ok"
                     /\ metadata_file.state = "ok"
                     /\ metadata_file.data_hash = DataHash[ms]
                     /\ metadata_file.model_name = mn,
       !.pre_cache = cache_file,
       !.pre_meta = metadata_file]

Forget(h) == [h EXCEPT !.pre_cache = NoFile, !.pre_meta = NoMetadata]

Failed(h) == [h EXCEPT !.rel = "none", !.prev_vectors = <<>>]

(* The process ends without main returning: what it held is lost *)
ProcessLost ==
    /\ pc' = "idle"
    /\ modules' = <<>>
    /\ model_name' = ""
    /\ force_recompute' = FALSE
    /\ i' = 0
    /\ embeddings' = <<>>
    /\ number' = 0
    /\ results' = <<>>

----------------------------------------------------------------------------
(* The cache and the driver: one run of main after another *)

Init ==
    /\ cache_dir = FALSE
    /\ cache_file = NoFile
    /\ metadata_file = NoMetadata
    /\ now = 0
    /\ pc = "idle"
    /\ modules = <<>>
    /\ model_name = ""
    /\ force_recompute = FALSE
    /\ i = 0
    /\ embeddings = <<>>
    /\ number = 0
    /\ threshold = DefaultThreshold
    /\ results = <<>>
    /\ hist = NoHist

(* main, lines 92-102, and load_or_compute_embeddings, lines 34-35: a run   *)
(* starts with its corpus, model and flag; get_cache_path makes the         *)
(* directory                                                                *)
Main(ms, mn, force) ==
    /\ pc = "idle"
    /\ now < MaxRuns
    /\ now' = now + 1
    /\ modules' = ms
    /\ model_name' = mn
    /\ force_recompute' = force
    /\ cache_dir' = TRUE
    /\ i' = 0
    /\ number' = 0
    /\ results' = <<>>
    /\ UNCHANGED <<cache_file, metadata_file, threshold>>

(* lines 37-44: json.load or np.load raises *)
CacheReadError(ms, mn, force) ==
    /\ UseCache(force, cache_file, metadata_file)
    /\ \/ metadata_file.state = "corrupt"
       \/ /\ metadata_file.state = "ok"
          /\ MetadataMatches(metadata_file, ms, mn)
          /\ cache_file.state = "corrupt"
    /\ pc = "idle"
    /\ now < MaxRuns
    /\ now' = now + 1
    /\ cache_dir' = TRUE
    /\ hist' = Failed([StartHist(ms, mn) EXCEPT
                         !.status = "raised", !.error = "cache_read"])
    /\ ProcessLost
    /\ UNCHANGED <<cache_file, metadata_file, threshold>>

(* lines 37-44: the cache-hit path *)
CacheHit(ms, mn, force) ==
    /\ Main(ms, mn, force)
    /\ UseCache(force, cache_file, metadata_file)
    /\ metadata_file.state = "ok"
    /\ MetadataMatches(metadata_file, ms, mn)
    /\ cache_file.state = "ok"
    /\ embeddings' = cache_file.embeddings
    /\ hist' = Forget([StartHist(ms, mn) EXCEPT
                         !.status = "returned", !.path = "hit"])
    /\ pc' = "find"

(* lines 37-51: falling through to the computation *)
CacheMiss(ms, mn, force) ==
    /\ Main(ms, mn, force)
    /\ \/ ~UseCache(force, cache_file, metadata_file)
       \/ /\ metadata_file.state = "ok"
          /\ ~MetadataMatches(metadata_file, ms, mn)
    /\ embeddings' = <<>>
    /\ hist' = [StartHist(ms, mn) EXCEPT !.path = "miss"]
    /\ pc' = "encode"

(* lines 53-56: one iteration of the loop *)
EncodeBatch ==
    /\ pc = "encode"
    /\ i < Len(Texts(modules))
    /\ embeddings' = embeddings \o encode(model_name, Batch(Texts(modules), i))
    /\ i' = i + batch_size
    /\ hist' = [hist EXCEPT !.encodes = @ + 1]
    /\ UNCHANGED <<cache_dir, cache_file, metadata_file, now, pc, modules,
                   model_name, force_recompute, number, threshold, results>>

(* Variant: the failure is caught, the loop left, the batches so far saved *)
ProviderErrorSwallowed ==
    /\ pc = "encode"
    /\ i < Len(Texts(modules))
    /\ i' = Len(Texts(modules))
    /\ hist' = [hist EXCEPT !.encodes = @ + 1, !.provider_failed = TRUE]
    /\ UNCHANGED <<cache_dir, cache_file, metadata_file, now, pc, modules,
                   model_name, force_recompute, embeddings, number,
                   threshold, results>>

(* line 55: model.encode raises; nothing catches it *)
ProviderError ==
    /\ pc = "encode"
    /\ i < Len(Texts(modules))
    /\ hist' = Failed([hist EXCEPT !.status = "raised", !.error = "provider",
                                   !.encodes = @ + 1,
                                   !.provider_failed = TRUE])
    /\ ProcessLost
    /\ UNCHANGED <<cache_dir, cache_file, metadata_file, now, threshold>>

(* lines 58-61: np.savez_compressed writes the archive in place *)
SaveEmbeddings ==
    /\ pc = "encode"
    /\ i >= Len(Texts(modules))
    /\ cache_file' = NpzFile(embeddings)
    /\ hist' = [hist EXCEPT !.wrote = @ \cup {"embeddings"}]
    /\ pc' = "save_metadata"
    /\ UNCHANGED <<cache_dir, metadata_file, now, modules, model_name,
                   force_recompute, i, embeddings, number, threshold, results>>

(* line 61: the process is stopped while the archive is being written *)
KilledInSave ==
    /\ pc = "encode"
    /\ i >= Len(Texts(modules))
    /\ cache_file' = BrokenFile
    /\ hist' = Failed(Forget([hist EXCEPT !.status = "killed",
                                          !.wrote = @ \cup {"embeddings"}]))
    /\ ProcessLost
    /\ UNCHANGED <<cache_dir, metadata_file, now, threshold>>

(* lines 62-71: the metadata record is written, the embeddings returned *)
SaveMetadata ==
    /\ pc = "save_metadata"
    /\ metadata_file' = Metadata(modules, model_name, now)
    /\ hist' = Forget([hist EXCEPT !.status = "returned",
                                   !.wrote = @ \cup {"metadata"}])
    /\ pc' = "find"
    /\ UNCHANGED <<cache_dir, cache_file, now, modules, model_name,
                   force_recompute, i, embeddings, number, threshold, results>>

(* between line 61 and line 68: the process is stopped *)
KilledBeforeMetadata ==
    /\ pc = "save_metadata"
    /\ hist' = Failed(Forget([hist EXCEPT !.status = "killed"]))
    /\ ProcessLost
    /\ UNCHANGED <<cache_dir, cache_file, metadata_file, now, threshold>>

(* lines 68-69: open(.., 'w') has truncated the file, json.dump is cut short *)
KilledInMetadata ==
    /\ pc = "save_metadata"
    /\ metadata_file' = BrokenMetadata
    /\ hist' = Failed(Forget([hist EXCEPT !.status = "killed",
                                          !.wrote = @ \cup {"metadata"}]))
    /\ ProcessLost
    /\ UNCHANGED <<cache_dir, cache_file, now, threshold>>

(* main, lines 104-114 *)
FindSimilar ==
    /\ pc = "find"
    /\ number' = TargetNumber(modules)
    /\ LET r == find_similar_modules(TargetNumber(modules), embeddings,
                                     modules, threshold)
           raised == r.error # "" \/ TargetNumber(modules) >= Len(modules)
       IN  /\ results' = IF raised THEN <<>>
                         ELSE SubSeq(r.value, 1, Min(TopK, Len(r.value)))
           /\ hist' = [hist EXCEPT
                         !.main = IF raised THEN "IndexError" ELSE "ok"]
    /\ pc' = "idle"
    /\ UNCHANGED <<cache_dir, cache_file, metadata_file, now, modules,
                   model_name, force_recompute, i, embeddings, threshold>>

Next ==
    \/ \E ms \in Corpora, mn \in ModelNames, force \in BOOLEAN :
          \/ CacheReadError(ms, mn, force)
          \/ CacheHit(ms, mn, force)
          \/ CacheMiss(ms, mn, force)
    \/ EncodeBatch
    \/ ProviderError
    \/ SaveEmbeddings
    \/ KilledInSave
    \/ SaveMetadata
    \/ KilledBeforeMetadata
    \/ KilledInMetadata
    \/ FindSimilar

Spec == Init /\ [][Next]_vars

----------------------------------------------------------------------------
(* find_similar_modules on its own: every corpus of up to MaxN modules,     *)
(* every assignment of vectors to them, every target and threshold          *)

Vectors ==
    { <<0, 0>>, <<1, 0>>, <<0, 1>>, <<1, 1>>, <<2, 1>>, <<1, 2>>, <<-1, 0>> }

Thresholds ==
    { [num |-> -1, den |-> 1], [num |-> 0, den |-> 1], [num |-> 3, den |-> 5],
      [num |-> 9, den |-> 10], [num |-> 1, den |-> 1] }

RankInit ==
    /\ cache_dir = FALSE
    /\ cache_file = NoFile
    /\ metadata_file = NoMetadata
    /\ now = 0
    /\ pc = "rank"
    /\ \E n \in 1..MaxN :
          /\ modules = Base(n)
          /\ embeddings \in [1..n -> Vectors]
    /\ model_name = ""
    /\ force_recompute = FALSE
    /\ i = 0
    /\ number = 0
    /\ threshold = DefaultThreshold
    /\ results = <<>>
    /\ hist = NoHist

Rank(module_idx, thr) ==
    /\ pc = "rank"
    /\ module_idx < Len(embeddings)
    /\ number' = module_idx
    /\ threshold' = thr
    /\ results' = find_similar_modules(module_idx, embeddings, modules, thr).value
    /\ pc' = "ranked"
    /\ UNCHANGED <<cache_dir, cache_file, metadata_file, now, modules,
                   model_name, force_recompute, i, embeddings, hist>>

RankNext == \E module_idx \in 0..(MaxN - 1), thr \in Thresholds :
                Rank(module_idx, thr)

SpecRank == RankInit /\ [][RankNext]_vars

----------------------------------------------------------------------------
(* Properties *)

Returned == hist.status = "returned"

BothFiles == {"embeddings", "metadata"}

(* The vectors the provider gives for a corpus under a model, in corpus order *)
Fresh(ms, mn) ==
    [k \in 1..Len(ms) |-> encode_one(mn, create_module_text(ms[k]))]

(* C1. Cache idempotence: a call with force_recompute = false that follows  *)
(* a returned call with the same corpus and model makes no provider call,   *)
(* writes no file, and returns the vectors the first call returned.         *)
C1_CacheIdempotence ==
    (Returned /\ hist.rel = "same" /\ ~force_recompute) =>
        /\ hist.path = "hit"
        /\ hist.encodes = 0
        /\ hist.wrote = {}
        /\ embeddings = hist.prev_vectors

C1_Witness ==
    /\ Returned
    /\ hist.rel = "same"
    /\ ~force_recompute
    /\ Len(modules) = 44
    /\ embeddings = hist.prev_vectors
    /\ Len(embeddings) = 44

(* C2. Cache invalidation: a call with force_recompute = false that follows *)
(* a returned call whose corpus differed (in one field of one module, or    *)
(* more) or whose model differed calls the provider, writes both files so   *)
(* that data_hash, model_name and num_modules describe the new corpus and   *)
(* model, and returns the vectors computed in this call.                    *)
C2_CacheInvalidation ==
    (Returned /\ hist.rel \in {"one_field", "model", "other"}
              /\ ~force_recompute) =>
        /\ hist.path = "miss"
        /\ hist.encodes > 0
        /\ hist.wrote = BothFiles
        /\ metadata_file = Metadata(modules, model_name, now)
        /\ metadata_file.num_modules = Len(modules)
        /\ cache_file = NpzFile(embeddings)
        /\ embeddings = Fresh(modules, model_name)

C2_Witness ==
    /\ Returned
    /\ hist.rel = "one_field"
    /\ ~force_recompute
    /\ hist.encodes = 2
    /\ modules[1].module_id = "IN99"
    /\ metadata_file.data_hash = get_data_hash(modules)

C2_WitnessModel ==
    /\ Returned
    /\ hist.rel = "model"
    /\ ~force_recompute
    /\ hist.encodes > 0

(* C3. Atomic persistence: whatever point of the persist step a run was     *)
(* stopped at, a later call that takes the cache-hit path returns the       *)
(* vectors computed for the corpus and model the metadata names (which, on  *)
(* that path, are the call's own).                                          *)
C3_AtomicPersistence ==
    (Returned /\ hist.path = "hit") =>
        embeddings = Fresh(modules, model_name)

(* C4. A corrupt cache is a cache miss: no call ends by raising the error   *)
(* of reading the persisted files.                                          *)
C4_CorruptCacheIsMiss ==
    ~(hist.status = "raised" /\ hist.error = "cache_read")

(* C5. Order preservation: on the cache-miss or forced path the returned    *)
(* sequence has one vector per module, the k-th being the provider's        *)
(* embedding of create_module_text of the k-th module; while the loop runs, *)
(* the vectors so far are those of the first min(i, N) modules.             *)
C5_OrderPreservation ==
    /\ (Returned /\ hist.path = "miss") =>
          /\ Len(embeddings) = Len(modules)
          /\ \A k \in 1..Len(modules) :
                embeddings[k] =
                    encode_one(model_name, create_module_text(modules[k]))
    /\ (pc = "encode") =>
          embeddings = SubSeq(Fresh(modules, model_name), 1,
                              Min(i, Len(modules)))

C5_Witness ==
    /\ Returned
    /\ hist.path = "miss"
    /\ Len(modules) = 65
    /\ hist.encodes = 3
    /\ Len(embeddings) = 65
    /\ embeddings[65] = encode_one(model_name, create_module_text(modules[65]))

(* C6. Force recompute: a returned call with force_recompute = true has     *)
(* called the provider and written both files, whatever the cache held.     *)
C6_ForceRecompute ==
    (Returned /\ force_recompute) =>
        /\ hist.path = "miss"
        /\ hist.encodes > 0
        /\ hist.wrote = BothFiles
        /\ cache_file = NpzFile(Fresh(modules, model_name))
        /\ metadata_file = Metadata(modules, model_name, now)

C6_Witness ==
    /\ Returned
    /\ force_recompute
    /\ hist.pre_valid
    /\ hist.encodes > 0
    /\ metadata_file.timestamp = now

(* C7. No partial cache write on provider failure: once the provider has    *)
(* failed on a batch the call has raised, has written neither file, and     *)
(* both files are as the call found them.                                   *)
C7_NoPartialWrite ==
    hist.provider_failed =>
        /\ hist.status = "raised"
        /\ hist.error = "provider"
        /\ hist.wrote = {}
        /\ cache_file = hist.pre_cache
        /\ metadata_file = hist.pre_meta

C7_Witness ==
    /\ hist.provider_failed
    /\ hist.status = "raised"
    /\ hist.encodes = 2
    /\ hist.pre_cache.state = "ok"
    /\ cache_file = hist.pre_cache

(* For C8 and C9: the similarity of module k (0-based) to the target, and   *)
(* the modules the result has to hold                                       *)
Sim(k) == cosine_similarity(embeddings[number + 1], embeddings[k + 1])

Qualifying ==
    {k \in 0..(Len(embeddings) - 1) : k # number /\ AtLeast(Sim(k), threshold)}

Place(k) ==
    1 + Cardinality({j \in Qualifying :
                        \/ Less(Sim(k), Sim(j))
                        \/ (Sim(j) = Sim(k) /\ j < k)})

Entry(k) ==
    [module_id  |-> modules[k + 1].module_id,
     title      |-> modules[k + 1].title,
     similarity |-> Sim(k)]

(* C8. Ranking correctness: the result holds exactly one entry per module   *)
(* other than the target whose similarity is at least the threshold, by     *)
(* descending similarity, equal similarities by ascending corpus index.     *)
C8_RankingCorrectness ==
    (pc = "ranked") =>
        /\ Len(results) = Cardinality(Qualifying)
        /\ \A k \in Qualifying : results[Place(k)] = Entry(k)

C8_Witness ==
    /\ pc = "ranked"
    /\ Len(embeddings) = 4
    /\ threshold = DefaultThreshold
    /\ Len(results) = 2
    /\ results[1].module_id = "IN4"
    /\ results[2].module_id = "IN2"
    /\ Less(results[2].similarity, results[1].similarity)
    /\ Qualifying = {1, 3}

C8_WitnessTie ==
    /\ pc = "ranked"
    /\ Len(results) = 2
    /\ results[1].similarity = results[2].similarity
    /\ results[1].module_id = "IN2"
    /\ results[2].module_id = "IN4"
    /\ embeddings[2] # embeddings[4]

(* C9. Self-exclusion: the result has no entry for the target, whatever the *)
(* threshold, and has one for every other module whose embedding equals the *)
(* target's when that similarity is at least the threshold.                 *)
C9_SelfExclusion ==
    (pc = "ranked") =>
        /\ \A r \in 1..Len(results) :
              results[r].module_id # modules[number + 1].module_id
        /\ \A k \in 0..(Len(embeddings) - 1) :
              (/\ k # number
               /\ embeddings[k + 1] = embeddings[number + 1]
               /\ AtLeast(Sim(number), threshold)) =>
                  \E r \in 1..Len(results) : results[r] = Entry(k)

C9_Witness ==
    /\ pc = "ranked"
    /\ threshold = [num |-> 1, den |-> 1]
    /\ \E k \in 0..(Len(embeddings) - 1) :
          /\ k # number
          /\ embeddings[k + 1] = embeddings[number + 1]
          /\ \E r \in 1..Len(results) : results[r] = Entry(k)
    /\ \A r \in 1..Len(results) :
          results[r].module_id # modules[number + 1].module_id

(* C10. Target not found fails loudly: a run over a corpus in which no      *)
(* title starts with the prefix does not end normally.                      *)
C10_TargetNotFoundFails ==
    (pc = "idle" /\ hist.main # "" /\ Matching(modules) = {}) =>
        hist.main # "ok"

====
